---------------------------- MODULE Spec2Model ----------------------------
(***************************************************************************)
(* A model of music_links_enricher.py: the string matcher fuzzy_match, the *)
(* evidence lookups, the Spotify and Deezer link ladders, the preview      *)
(* ladder and the run update_json_with_links that drives them.             *)
(*                                                                         *)
(* A string is a sequence of one-character strings.  A network call is a   *)
(* step of the run; its answer is chosen by the environment: the request   *)
(* raises, is answered with a status other than 200, or is answered 200    *)
(* with a payload.                                                         *)
(***************************************************************************)
EXTENDS Integers, Sequences, FiniteSets, TLC

VARIABLES
    pc,              \* position of the run: the network call about to be issued
    where,           \* the position at which an exception escaped the run ("" if none)
    token,           \* spotify_token: Unset before authentication, None if rejected
    data,            \* the in-memory list of release records
    file,            \* the persisted artifact at file_path
    rel,             \* index into data of the release being resolved
    ai,              \* index into artist_list of the current loop
    si,              \* index into possible_songs of the current loop
    pend,            \* results of the current search from the accepted one on
    possible_songs,  \* the track evidence of the release
    spotify_tracks,  \* the track list get_spotify_link builds and returns
    deezer_tracks,   \* the track list get_deezer_link builds and returns
    ladder,          \* the ladder that issued the last request for the release
    firstHits,       \* links of the acceptable results of that link ladder's first album search
    issued,          \* the kinds of request that link ladder has issued
    allEmpty,        \* so far every call for the release succeeded, every provider answer empty
    spNoTok,         \* a Spotify request was issued after authentication was rejected
    pvTried,         \* the providers the preview ladder of the release has asked, in order
    dzYield,         \* a Deezer answer to the preview ladder of the release held a preview it takes
    pvFrom,          \* the provider whose answer gave the release's preview
    writes,          \* how many times file_path has been opened for writing
    auths,           \* how many token requests the run has issued
    spTokens,        \* the token values the run has passed to Spotify requests
    artistHit,       \* link of the first non-empty artist-search answer of that link ladder
    albumTried,      \* the artists whose search by album and artist that link ladder has issued
    undelayed,       \* position of the last request if rate_limit has not run since, else ""
    firstFit,        \* link of the first result, as answered, that link ladder's album searches could accept
    albumSearches,   \* artist and title of each search by album and artist of that link ladder
    aux,             \* the titles the evidence lookups of the release answered with
    fm               \* the application of fuzzy_match under test

vars == <<pc, where, token, data, file, rel, ai, si, pend, possible_songs,
          spotify_tracks, deezer_tracks, ladder, firstHits, issued, allEmpty,
          spNoTok, pvTried, dzYield, pvFrom, writes, auths, spTokens, artistHit,
          albumTried, undelayed, firstFit, albumSearches, aux, fm>>

-----------------------------------------------------------------------------
(* Strings *)

\* Longest string drawn as an input of fuzzy_match.
MaxStrLen == 3

\* The characters of the model in code-point order.
Chars == <<" ", "&", "A", "B", "C", "D", "a", "b", "c", "d">>

Ord(c) == CHOOSE i \in 1..Len(Chars) : Chars[i] = c

\* str.lower() on one character.
LowerChar(c) ==
    CASE c = "A" -> "a" [] c = "B" -> "b" [] c = "C" -> "c" [] c = "D" -> "d"
      [] OTHER -> c

\* str.lower()
Lower(s) == [i \in 1..Len(s) |-> LowerChar(s[i])]

IsAlnum(c) == c \notin {" ", "&"}

\* str.strip(): leading and trailing whitespace removed.
RECURSIVE LStrip(_)
LStrip(s) == IF s # <<>> /\ Head(s) = " " THEN LStrip(Tail(s)) ELSE s

RECURSIVE RStrip(_)
RStrip(s) ==
    IF s # <<>> /\ s[Len(s)] = " " THEN RStrip(SubSeq(s, 1, Len(s) - 1)) ELSE s

Strip(s) == RStrip(LStrip(s))

\* str.split(sep): the pieces between the occurrences of the character sep.
RECURSIVE SplitOn(_, _, _)
SplitOn(s, sep, cur) ==
    IF s = <<>> THEN <<cur>>
    ELSE IF Head(s) = sep THEN <<cur>> \o SplitOn(Tail(s), sep, <<>>)
    ELSE SplitOn(Tail(s), sep, Append(cur, Head(s)))

Split(s, sep) == SplitOn(s, sep, <<>>)

\* x in y, for strings: x occurs in y as a contiguous substring.
Contains(y, x) ==
    \E i \in 0..(Len(y) - Len(x)) : SubSeq(y, i + 1, i + Len(x)) = x

\* s1 < s2 in Python's string order (lexicographic by code point).
RECURSIVE StrLess(_, _)
StrLess(s1, s2) ==
    IF s2 = <<>> THEN FALSE
    ELSE IF s1 = <<>> THEN TRUE
    ELSE IF Head(s1) # Head(s2) THEN Ord(Head(s1)) < Ord(Head(s2))
    ELSE StrLess(Tail(s1), Tail(s2))

-----------------------------------------------------------------------------
(* fuzz.token_sort_ratio, as fuzzywuzzy computes it *)

\* utils.full_process: non-alphanumerics to spaces, lower-cased, stripped.
FullProcess(s) ==
    Strip([i \in 1..Len(s) |-> IF IsAlnum(s[i]) THEN LowerChar(s[i]) ELSE " "])

\* str.split(): the whitespace-separated tokens.
Tokens(s) == SelectSeq(Split(s, " "), LAMBDA t : t # <<>>)

\* sorted(tokens)
RECURSIVE InsertToken(_, _)
InsertToken(t, ts) ==
    IF ts = <<>> THEN <<t>>
    ELSE IF StrLess(t, Head(ts)) THEN <<t>> \o ts
    ELSE <<Head(ts)>> \o InsertToken(t, Tail(ts))

RECURSIVE SortTokens(_)
SortTokens(ts) ==
    IF ts = <<>> THEN <<>> ELSE InsertToken(Head(ts), SortTokens(Tail(ts)))

\* " ".join(tokens)
RECURSIVE JoinTokens(_)
JoinTokens(ts) ==
    IF ts = <<>> THEN <<>>
    ELSE IF Len(ts) = 1 THEN Head(ts)
    ELSE Head(ts) \o <<" ">> \o JoinTokens(Tail(ts))

\* fuzz._process_and_sort
ProcessAndSort(s) == JoinTokens(SortTokens(Tokens(FullProcess(s))))

Max(a, b) == IF a >= b THEN a ELSE b

\* The number of matched characters of the sequence matcher.
LcsLen(s, t) ==
    LET f[i \in 0..Len(s), j \in 0..Len(t)] ==
            IF i = 0 \/ j = 0 THEN 0
            ELSE IF s[i] = t[j] THEN f[i - 1, j - 1] + 1
            ELSE Max(f[i - 1, j], f[i, j - 1])
    IN  f[Len(s), Len(t)]

\* utils.intr(100 * 2 * m / t): int(round(x)), Python rounding half to even.
RoundPercent(m, t) ==
    LET q == (200 * m) \div t
        r == (200 * m) % t
    IN  IF 2 * r > t THEN q + 1
        ELSE IF 2 * r = t /\ q % 2 = 1 THEN q + 1
        ELSE q

\* fuzz.ratio with its guards: equal strings score 100, an empty one scores 0.
Ratio(s1, s2) ==
    IF s1 = s2 THEN 100
    ELSE IF s1 = <<>> \/ s2 = <<>> THEN 0
    ELSE RoundPercent(LcsLen(s1, s2), Len(s1) + Len(s2))

\* fuzz.token_sort_ratio(s1, s2)
TokenSortRatio(s1, s2) == Ratio(ProcessAndSort(s1), ProcessAndSort(s2))

\* The default of fuzzy_match's threshold parameter.
DefaultThreshold == 85

\* fuzzy_match with the substring alternative dropped.
FuzzyMatchRatioOnly(target, candidate, threshold) ==
    TokenSortRatio(target, candidate) >= threshold

\* fuzzy_match with the substring alternative asking for a longer candidate.
FuzzyMatchProperSubstring(target, candidate, threshold) ==
    \/ TokenSortRatio(target, candidate) >= threshold
    \/ Len(target) < Len(candidate) /\ Contains(Lower(candidate), Lower(target))

\* fuzzy_match(target, candidate, threshold)
FuzzyMatch(target, candidate, threshold) ==
    \/ TokenSortRatio(target, candidate) >= threshold
    \/ Contains(Lower(candidate), Lower(target))

\* fuzzy_match(target, candidate): every call site uses the default threshold.
fuzzy_match(target, candidate) == FuzzyMatch(target, candidate, DefaultThreshold)

-----------------------------------------------------------------------------
(* Values *)

\* Python's None, and the token before authenticate_spotify has run.
None == "None"
Unset == "Unset"

\* album_data[key] = val: the key is added to the record if it is not there.
SetFieldUnlessNone(rec, key, val) ==
    IF val = None THEN rec
    ELSE [k \in DOMAIN rec \cup {key} |-> IF k = key THEN val ELSE rec[k]]

SetField(rec, key, val) ==
    [k \in DOMAIN rec \cup {key} |-> IF k = key THEN val ELSE rec[k]]

\* The release records read from file_path.
ReleaseAB == [artist |-> <<"a", " ", "&", " ", "b">>, album |-> <<"c", "d">>]
ReleaseA == [artist |-> <<"A">>, album |-> <<"c", "d">>]

Inputs == {<<>>, <<ReleaseAB>>, <<ReleaseA, ReleaseA>>}

\* Album search results of a provider: title, first artist, page link, release date.
AlbumA == [title |-> <<"c", "d">>, artist |-> <<"a">>, link |-> "album-a", date |-> 1]
AlbumB == [title |-> <<"C", "d", " ", "b">>, artist |-> <<"b">>, link |-> "album-b", date |-> 2]
AlbumShort == [title |-> <<"c">>, artist |-> <<"a">>, link |-> "album-short", date |-> 0]

AlbumLists == {<<>>, <<AlbumShort, AlbumA>>, <<AlbumA, AlbumB>>}

\* Track listings of an album: title and preview of each track.
TrackLists ==
    {<<>>,
     <<[title |-> "t1", preview |-> ""]>>,
     <<[title |-> "t1", preview |-> None], [title |-> "t2", preview |-> "preview-t1"]>>}

\* Track search results: page link, album title and preview of each track found.
TrackHit == [link |-> "track-1", album |-> <<"c", "d">>, preview |-> "preview-1"]
TrackMute == [link |-> "track-2", album |-> <<"c", "d">>, preview |-> None]
TrackOther == [link |-> "track-3", album |-> <<"b">>, preview |-> "preview-3"]

TrackItemLists == {<<>>, <<TrackOther, TrackMute, TrackHit>>}

\* Artist search results.
ArtistLists == {<<>>, <<[link |-> "artist-1"]>>}

\* Titles returned by the evidence lookups.
MusicBrainzLists == {<<>>, <<"m1">>}
DiscogsLists == {<<>>, <<"d1">>}

\* The answers to a request: it raises, a status other than 200, or 200 with a payload.
Raise == [k |-> "raise", items |-> <<>>]
Err == [k |-> "err", items |-> <<>>]
Ok(items) == [k |-> "ok", items |-> items]

Answers(payloads) == {Raise, Err} \cup {Ok(p) : p \in payloads}

\* Spotify answers a request that carries no valid token with an error status.
SpotifyAnswers(payloads) ==
    IF token = None THEN {Raise, Err} ELSE Answers(payloads)

LinkKeys == {"spotify_link", "deezer_link", "preview_url"}

-----------------------------------------------------------------------------
(* The program state as one record, and the loops' bookkeeping *)

Cur ==
    [pc |-> pc, where |-> where, token |-> token, data |-> data, file |-> file,
     rel |-> rel, ai |-> ai, si |-> si, pend |-> pend,
     possible_songs |-> possible_songs, spotify_tracks |-> spotify_tracks,
     deezer_tracks |-> deezer_tracks, writes |-> writes]

Set(n) ==
    /\ pc' = n.pc
    /\ where' = n.where
    /\ token' = n.token
    /\ data' = n.data
    /\ file' = n.file
    /\ rel' = n.rel
    /\ ai' = n.ai
    /\ si' = n.si
    /\ pend' = n.pend
    /\ possible_songs' = n.possible_songs
    /\ spotify_tracks' = n.spotify_tracks
    /\ deezer_tracks' = n.deezer_tracks
    /\ writes' = n.writes

\* artist.split("&") of the release being resolved, and artist_name.strip().
ArtistList(s) == Split(s.data[s.rel].artist, "&")
ArtistName(s, i) == Strip(ArtistList(s)[i])
Album(s) == s.data[s.rel].album

\* An exception leaves update_json_with_links: the run ends without the write.
Abort(s, at) == [s EXCEPT !.pc = "aborted", !.where = at]

\* The first of the positions js of a list in the order of its loop, 0 if there is none.
First(js) == IF js = {} THEN 0 ELSE CHOOSE j \in js : \A h \in js : j <= h

Titles(tracks) == [j \in 1..Len(tracks) |-> tracks[j].title]

Range(q) == {q[j] : j \in 1..Len(q)}

-----------------------------------------------------------------------------
(* update_json_with_links: authentication and the evidence lookups *)

\* authenticate_spotify, with a rejection ending the run.
OnAuthRejectionFatal(resp) ==
    IF resp.k = "ok"
    THEN [Cur EXCEPT !.pc = "next", !.token = resp.items]
    ELSE Abort([Cur EXCEPT !.token = IF resp.k = "err" THEN None ELSE @], "auth")

\* authenticate_spotify: the request is made outside any try; a status other
\* than 200 gives None, and the run goes on to the releases.
OnAuth(resp) ==
    CASE resp.k = "raise" -> Abort(Cur, "auth")
      [] resp.k = "err" -> [Cur EXCEPT !.pc = "next", !.token = None]
      [] OTHER -> [Cur EXCEPT !.pc = "next", !.token = resp.items]

\* search_musicbrainz_for_album: the request is made outside any try.
OnMusicBrainz(resp) ==
    CASE resp.k = "raise" -> Abort(Cur, "mb")
      [] resp.k = "err" -> [Cur EXCEPT !.pc = "discogs", !.possible_songs = <<>>]
      [] OTHER -> [Cur EXCEPT !.pc = "discogs", !.possible_songs = resp.items]

\* The Discogs lookup overwriting the evidence instead of extending it.
OnDiscogsOverwrite(resp) ==
    [Cur EXCEPT !.pc = "sp_album", !.ai = 1,
                !.possible_songs = IF resp.k = "ok" THEN resp.items ELSE <<>>]

\* possible_songs += get_discogs_album_tracks(...): the client raises on a
\* transport failure and on an error status, and the function catches both.
OnDiscogs(resp) ==
    [Cur EXCEPT !.pc = "sp_album", !.ai = 1,
                !.possible_songs = @ \o (IF resp.k = "ok" THEN resp.items ELSE <<>>)]

-----------------------------------------------------------------------------
(* get_spotify_link *)

\* The acceptance test with the candidate's title as the matcher's target.
SpotifyAcceptsReversed(s, i, c) ==
    fuzzy_match(c.title, Album(s)) /\ fuzzy_match(ArtistName(s, i), c.artist)

\* The acceptance test of the album searches of get_spotify_link.
SpotifyAccepts(s, i, c) ==
    fuzzy_match(Album(s), c.title) /\ fuzzy_match(ArtistName(s, i), c.artist)

\* The return of get_spotify_link with its tracks added to the evidence at once.
SpReturnExtending(s, link) ==
    [s EXCEPT !.data[s.rel] = SetField(@, "spotify_link", link),
              !.possible_songs = @ \o s.spotify_tracks,
              !.pc = "dz_album", !.ai = 1, !.si = 1, !.pend = <<>>]

\* return link, spotify_tracks; album_data['spotify_link'] = link; get_deezer_link begins.
SpReturn(s, link) ==
    [s EXCEPT !.data[s.rel] = SetField(@, "spotify_link", link),
              !.pc = "dz_album", !.ai = 1, !.si = 1, !.pend = <<>>]

\* Step 3 has tried every artist.
SpExhausted(s) == SpReturn(s, None)

SpArtistTier(s) == [s EXCEPT !.pc = "sp_artist", !.ai = 1, !.si = 1, !.pend = <<>>]

\* Step 2 begins; with no evidence its loop body never runs.
SpTrackTier(s) ==
    IF s.possible_songs = <<>> THEN SpArtistTier(s)
    ELSE [s EXCEPT !.pc = "sp_track", !.si = 1, !.ai = 1, !.pend = <<>>]

\* The next iteration of the Step 1 loop over artist_list.
SpNextArtist(s) ==
    IF s.ai < Len(ArtistList(s))
    THEN [s EXCEPT !.pc = "sp_album", !.ai = @ + 1, !.pend = <<>>]
    ELSE SpTrackTier(s)

\* The next iteration of Step 2: artists inside songs.
SpNextTrack(s) ==
    IF s.ai < Len(ArtistList(s)) THEN [s EXCEPT !.ai = @ + 1]
    ELSE IF s.si < Len(s.possible_songs) THEN [s EXCEPT !.si = @ + 1, !.ai = 1]
    ELSE SpArtistTier(s)

\* The next iteration of Step 3.
SpNextArtistPage(s) ==
    IF s.ai < Len(ArtistList(s)) THEN [s EXCEPT !.ai = @ + 1] ELSE SpExhausted(s)

\* The album search by album and artist skipping the broader search on an error status.
OnSpAlbumErrorSkipsBroad(resp) ==
    LET j == IF resp.k = "ok"
             THEN First({h \in 1..Len(resp.items) : SpotifyAccepts(Cur, ai, resp.items[h])})
             ELSE 0
    IN  CASE resp.k # "ok" -> SpNextArtist(Cur)
          [] j > 0 -> [Cur EXCEPT !.pc = "sp_fetch", !.pend = <<resp.items[j]>>]
          [] OTHER -> [Cur EXCEPT !.pc = "sp_broad"]

\* Step 1, the search by album and artist.
OnSpAlbum(resp) ==
    LET j == IF resp.k = "ok"
             THEN First({h \in 1..Len(resp.items) : SpotifyAccepts(Cur, ai, resp.items[h])})
             ELSE 0
    IN  CASE resp.k = "raise" -> SpNextArtist(Cur)
          [] j > 0 -> [Cur EXCEPT !.pc = "sp_fetch", !.pend = <<resp.items[j]>>]
          [] OTHER -> [Cur EXCEPT !.pc = "sp_broad"]

\* The request for the tracks of the accepted album, inside the try of its
\* artist's iteration: if it raises, the iteration ends without a return.
OnSpFetch(resp) ==
    CASE resp.k = "raise" -> SpNextArtist(Cur)
      [] resp.k = "err" -> SpReturn(Cur, pend[1].link)
      [] OTHER ->
            SpReturn([Cur EXCEPT !.spotify_tracks = @ \o Titles(resp.items)],
                     pend[1].link)

\* Step 1, the broader search by album only, made in the same iteration.
OnSpBroad(resp) ==
    LET j == IF resp.k = "ok"
             THEN First({h \in 1..Len(resp.items) : SpotifyAccepts(Cur, ai, resp.items[h])})
             ELSE 0
    IN  IF j > 0 THEN [Cur EXCEPT !.pc = "sp_fetch", !.pend = <<resp.items[j]>>]
        ELSE SpNextArtist(Cur)

\* Step 2, a search by track and artist: the first result is taken unchecked.
OnSpTrack(resp) ==
    IF resp.k = "ok" /\ resp.items # <<>>
    THEN SpReturn(Cur, resp.items[1].link)
    ELSE SpNextTrack(Cur)

\* Step 3, a search by artist: data['artists'][0] indexes the object that
\* holds 'items' by 0, which raises; the except of the iteration catches it.
OnSpArtist(resp) == SpNextArtistPage(Cur)

-----------------------------------------------------------------------------
(* get_deezer_link *)

\* is_valid_match(result_album_name, result_artist_name, target_album_name, target_artist_name)
is_valid_match(resultAlbum, resultArtist, targetAlbum, targetArtist) ==
    fuzzy_match(targetAlbum, resultAlbum) /\ fuzzy_match(targetArtist, resultArtist)

\* sorted(data['data'], key=release_date, reverse=True): newest first, and
\* results of one date in the order the provider gave them (the sort is stable).
RECURSIVE InsertByDate(_, _)
InsertByDate(x, xs) ==
    IF xs = <<>> THEN <<x>>
    ELSE IF Head(xs).date >= x.date THEN <<Head(xs)>> \o InsertByDate(x, Tail(xs))
    ELSE <<x>> \o xs

RECURSIVE SortNewestFirst(_)
SortNewestFirst(items) ==
    IF items = <<>> THEN <<>>
    ELSE InsertByDate(items[Len(items)],
                      SortNewestFirst(SubSeq(items, 1, Len(items) - 1)))

\* return link, deezer_tracks; album_data['deezer_link'] = link;
\* possible_songs += spotify_tracks + deezer_tracks; get_preview_url begins.
DzReturn(s, link) ==
    [s EXCEPT !.data[s.rel] = SetField(@, "deezer_link", link),
              !.possible_songs = @ \o s.spotify_tracks \o s.deezer_tracks,
              !.pc = "pv_dz_album", !.ai = 1, !.si = 1, !.pend = <<>>]

\* The exhausted ladder returning an empty string for None.
DzExhaustedEmptyString(s) == DzReturn(s, "")

\* The artist search has tried every artist.
DzExhausted(s) == DzReturn(s, None)

\* The next iteration of the loop of searches by artist and album.
DzNextArtist(s) ==
    IF s.ai < Len(ArtistList(s))
    THEN [s EXCEPT !.pc = "dz_album", !.ai = @ + 1, !.pend = <<>>]
    ELSE [s EXCEPT !.pc = "dz_broad", !.ai = 1, !.pend = <<>>]

DzArtistTier(s) == [s EXCEPT !.pc = "dz_artist", !.ai = 1, !.pend = <<>>]

DzNextArtistPage(s) ==
    IF s.ai < Len(ArtistList(s)) THEN [s EXCEPT !.ai = @ + 1] ELSE DzExhausted(s)

\* search_deezer_for_artist and the scan of its sorted results; no try around it.
OnDzAlbum(resp) ==
    LET sorted == SortNewestFirst(resp.items)
        j == First({h \in 1..Len(sorted) :
                is_valid_match(sorted[h].title, sorted[h].artist,
                               Album(Cur), ArtistName(Cur, ai))})
    IN  CASE resp.k = "raise" -> Abort(Cur, "dz_album")
          [] resp.k = "ok" /\ j > 0 -> [Cur EXCEPT !.pc = "dz_fetch", !.pend = <<sorted[j]>>]
          [] OTHER -> DzNextArtist(Cur)

\* The request for the accepted album's tracks; no try around it.
OnDzFetch(resp) ==
    CASE resp.k = "raise" -> Abort(Cur, "dz_fetch")
      [] resp.k = "err" -> DzReturn(Cur, pend[1].link)
      [] OTHER ->
            DzReturn([Cur EXCEPT !.deezer_tracks = @ \o Titles(resp.items)],
                     pend[1].link)

\* The search by album name only: each sorted result is tested against each artist.
OnDzBroad(resp) ==
    LET sorted == SortNewestFirst(resp.items)
        j == First({h \in 1..Len(sorted) : \E i \in 1..Len(ArtistList(Cur)) :
                    is_valid_match(sorted[h].title, sorted[h].artist,
                                   Album(Cur), ArtistName(Cur, i))})
    IN  CASE resp.k = "raise" -> Abort(Cur, "dz_broad")
          [] resp.k = "ok" /\ j > 0 -> [Cur EXCEPT !.pc = "dz_fetch", !.pend = <<sorted[j]>>]
          [] OTHER -> DzArtistTier(Cur)

\* The search for the artist's page, inside a try.
OnDzArtist(resp) ==
    IF resp.k = "ok" /\ resp.items # <<>>
    THEN DzReturn(Cur, resp.items[1].link)
    ELSE DzNextArtistPage(Cur)

-----------------------------------------------------------------------------
(* get_preview_url *)

\* A preview field that is present and not empty.
Usable(p) == p \notin {None, ""}

\* The return of get_preview_url followed by a save of the collection.
PvReturnSaving(s, url) ==
    [s EXCEPT !.data[s.rel] = SetField(@, "preview_url", url),
              !.file = [s.data EXCEPT ![s.rel] = SetField(@, "preview_url", url)],
              !.writes = @ + 1,
              !.pc = "next", !.ai = 1, !.si = 1, !.pend = <<>>]

\* The return of get_preview_url followed by a new token request.
PvReturnReauth(s, url) ==
    [s EXCEPT !.data[s.rel] = SetField(@, "preview_url", url),
              !.pc = "auth", !.ai = 1, !.si = 1, !.pend = <<>>]

\* return preview; album_data['preview_url'] = preview_url.
PvReturn(s, url) ==
    [s EXCEPT !.data[s.rel] = SetField(@, "preview_url", url),
              !.pc = "next", !.ai = 1, !.si = 1, !.pend = <<>>]

\* Part 4 begins.
PvSpTrackTier(s) ==
    IF s.possible_songs = <<>> THEN PvReturn(s, None)
    ELSE [s EXCEPT !.pc = "pv_sp_track", !.si = 1, !.ai = 1, !.pend = <<>>]

\* Part 3 begins.
PvSpAlbumTier(s) == [s EXCEPT !.pc = "pv_sp_album", !.ai = 1, !.si = 1, !.pend = <<>>]

\* Part 2 begins.
PvDzTrackTier(s) ==
    IF s.possible_songs = <<>> THEN PvSpAlbumTier(s)
    ELSE [s EXCEPT !.pc = "pv_dz_track", !.si = 1, !.ai = 1, !.pend = <<>>]

PvDzNextArtist(s) ==
    IF s.ai < Len(ArtistList(s))
    THEN [s EXCEPT !.pc = "pv_dz_album", !.ai = @ + 1, !.pend = <<>>]
    ELSE PvDzTrackTier(s)

\* Part 1, the scan of the results not yet examined: the test is
\* fuzzy_match(album_data['title'], album), and the artist is not tested.
PvDzScan(s, cands) ==
    LET j == First({h \in 1..Len(cands) : fuzzy_match(cands[h].title, Album(s))})
    IN  IF j > 0
        THEN [s EXCEPT !.pc = "pv_dz_fetch", !.pend = SubSeq(cands, j, Len(cands))]
        ELSE PvDzNextArtist(s)

\* Part 1, the Deezer album search; one try holds the whole loop.
OnPvDzAlbum(resp) ==
    CASE resp.k = "raise" -> PvDzTrackTier(Cur)
      [] resp.k = "err" -> PvDzNextArtist(Cur)
      [] OTHER -> PvDzScan(Cur, resp.items)

\* Part 1, the tracks of a matching album: the first usable preview is returned.
OnPvDzFetch(resp) ==
    LET j == First({h \in 1..Len(resp.items) : Usable(resp.items[h].preview)})
    IN  CASE resp.k = "raise" -> PvDzTrackTier(Cur)
          [] resp.k = "ok" /\ j > 0 -> PvReturn(Cur, resp.items[j].preview)
          [] OTHER -> PvDzScan(Cur, Tail(pend))

PvDzNextTrack(s) ==
    IF s.ai < Len(ArtistList(s)) THEN [s EXCEPT !.ai = @ + 1]
    ELSE IF s.si < Len(s.possible_songs) THEN [s EXCEPT !.si = @ + 1, !.ai = 1]
    ELSE PvSpAlbumTier(s)

\* A track result the preview ladder takes: its album matches and it has a preview.
PvTakes(s, t) == fuzzy_match(t.album, Album(s)) /\ Usable(t.preview)

\* Part 2 with the preview of the tracks found never taken.
OnPvDzTrackNeverTaken(resp) == PvDzNextTrack(Cur)

\* Part 2, a Deezer track search, each in its own try.
OnPvDzTrack(resp) ==
    LET j == First({h \in 1..Len(resp.items) : PvTakes(Cur, resp.items[h])})
    IN  IF resp.k = "ok" /\ j > 0 THEN PvReturn(Cur, resp.items[j].preview)
        ELSE PvDzNextTrack(Cur)

PvSpNextArtist(s) ==
    IF s.ai < Len(ArtistList(s))
    THEN [s EXCEPT !.pc = "pv_sp_album", !.ai = @ + 1, !.pend = <<>>]
    ELSE PvSpTrackTier(s)

\* Part 3, the scan of the results not yet examined.
PvSpScan(s, cands) ==
    LET j == First({h \in 1..Len(cands) : fuzzy_match(cands[h].title, Album(s))})
    IN  IF j > 0
        THEN [s EXCEPT !.pc = "pv_sp_fetch", !.pend = SubSeq(cands, j, Len(cands))]
        ELSE PvSpNextArtist(s)

\* Part 3, the Spotify album search; one try holds the whole loop.
OnPvSpAlbum(resp) ==
    CASE resp.k = "raise" -> PvSpTrackTier(Cur)
      [] resp.k = "err" -> PvSpNextArtist(Cur)
      [] OTHER -> PvSpScan(Cur, resp.items)

\* get_spotify_album_preview, called inside the try of part 3.
OnPvSpFetch(resp) ==
    LET j == First({h \in 1..Len(resp.items) : Usable(resp.items[h].preview)})
    IN  CASE resp.k = "raise" -> PvSpTrackTier(Cur)
          [] resp.k = "ok" /\ j > 0 -> PvReturn(Cur, resp.items[j].preview)
          [] OTHER -> PvSpScan(Cur, Tail(pend))

\* The next song of part 4.
PvSpNextSong(s) ==
    IF s.si < Len(s.possible_songs) THEN [s EXCEPT !.si = @ + 1, !.ai = 1]
    ELSE PvReturn(s, None)

PvSpNextTrack(s) ==
    IF s.ai < Len(ArtistList(s)) THEN [s EXCEPT !.ai = @ + 1] ELSE PvSpNextSong(s)

\* Part 4, a Spotify track search: the try holds the artist loop of one song,
\* so an exception ends the song's remaining artists.
OnPvSpTrack(resp) ==
    LET j == First({h \in 1..Len(resp.items) : PvTakes(Cur, resp.items[h])})
    IN  CASE resp.k = "raise" -> PvSpNextSong(Cur)
          [] resp.k = "ok" /\ j > 0 -> PvReturn(Cur, resp.items[j].preview)
          [] OTHER -> PvSpNextTrack(Cur)

-----------------------------------------------------------------------------
(* What the run has done for the release being resolved *)

SpotifyLadder == {"sp_album", "sp_fetch", "sp_broad", "sp_track", "sp_artist"}
DeezerLadder == {"dz_album", "dz_fetch", "dz_broad", "dz_artist"}
PreviewDeezer == {"pv_dz_album", "pv_dz_fetch", "pv_dz_track"}
PreviewSpotify == {"pv_sp_album", "pv_sp_fetch", "pv_sp_track"}
SpotifyCalls == SpotifyLadder \cup PreviewSpotify
Evidence == {"mb", "discogs"}
EscapePoints == {"mb", "dz_album", "dz_fetch", "dz_broad"}

\* The kind of request issued at a position of a link ladder.
Kind(at) ==
    CASE at \in {"sp_album", "dz_album"} -> "album"
      [] at \in {"sp_fetch", "dz_fetch"} -> "fetch"
      [] at \in {"sp_broad", "dz_broad"} -> "broad"
      [] at \in {"sp_track"} -> "track"
      [] OTHER -> "artist"

\* Links of the results of a ladder's first album search that pass its match check.
AcceptableLinks(at, resp) ==
    IF resp.k # "ok" THEN {}
    ELSE {resp.items[j].link : j \in
            {h \in 1..Len(resp.items) :
                IF at = "sp_album" THEN SpotifyAccepts(Cur, 1, resp.items[h])
                ELSE is_valid_match(resp.items[h].title, resp.items[h].artist,
                                    Album(Cur), ArtistName(Cur, 1))}}

\* Whether a Deezer answer to the preview ladder holds a preview the ladder takes.
DeezerYields(at, resp) ==
    /\ resp.k = "ok"
    /\ \/ at = "pv_dz_fetch" /\ \E j \in 1..Len(resp.items) : Usable(resp.items[j].preview)
       \/ at = "pv_dz_track" /\ \E j \in 1..Len(resp.items) : PvTakes(Cur, resp.items[j])

NoHistory ==
    /\ ladder = "none"
    /\ firstHits = {}
    /\ issued = {}
    /\ allEmpty = TRUE
    /\ pvTried = <<>>
    /\ dzYield = FALSE
    /\ pvFrom = "none"
    /\ artistHit = None
    /\ albumTried = {}
    /\ firstFit = None
    /\ albumSearches = <<>>
    /\ aux = <<>>

ResetHistory ==
    /\ ladder' = "none"
    /\ firstHits' = {}
    /\ issued' = {}
    /\ allEmpty' = TRUE
    /\ pvTried' = <<>>
    /\ dzYield' = FALSE
    /\ pvFrom' = "none"
    /\ artistHit' = None
    /\ albumTried' = {}
    /\ firstFit' = None
    /\ albumSearches' = <<>>
    /\ aux' = <<>>

\* The first result, in the order of the answer, that the search at position at
\* could accept: both checks pass for the artist of the search, or for a
\* listed artist in Deezer's search by album name; None if there is none.
FirstAccepted(at, resp) ==
    LET ok(c) ==
            /\ fuzzy_match(Album(Cur), c.title)
            /\ IF at = "dz_broad"
               THEN \E i \in 1..Len(ArtistList(Cur)) :
                        fuzzy_match(ArtistName(Cur, i), c.artist)
               ELSE fuzzy_match(ArtistName(Cur, ai), c.artist)
        j == IF resp.k = "ok"
             THEN First({h \in 1..Len(resp.items) : ok(resp.items[h])})
             ELSE 0
    IN  IF j > 0 THEN resp.items[j].link ELSE None

\* The query of a search by album and artist with a known edition suffix added.
AlbumQueryDeluxe(s, i) ==
    [artist |-> ArtistName(s, i), title |-> Album(s) \o <<" ", "D">>]

\* The query of the search by album and artist: "album:{album} artist:{artist_name}".
AlbumQuery(s, i) == [artist |-> ArtistName(s, i), title |-> Album(s)]

\* Whether rate_limit() runs after the request at position at answered resp and
\* before the next request: it is the statement after the request at the
\* searches and the evidence lookups, skipped when the request raises; no
\* rate_limit() follows the token request or a request for an album's tracks.
RateLimited(at, resp) ==
    /\ resp.k # "raise"
    /\ at \notin {"auth", "sp_fetch", "dz_fetch", "pv_dz_fetch", "pv_sp_fetch"}

\* The record of a request at position at answered resp, the run going on in state n.
Observe(at, resp, n) ==
    /\ ladder' =
            CASE at \in SpotifyLadder -> "spotify"
              [] at \in DeezerLadder -> "deezer"
              [] at \in PreviewDeezer \cup PreviewSpotify -> "preview"
              [] OTHER -> ladder
    /\ firstHits' =
            CASE at \in {"sp_album", "dz_album"} /\ ai = 1 -> AcceptableLinks(at, resp)
              [] at \in SpotifyLadder \cup DeezerLadder -> firstHits
              [] OTHER -> {}
    /\ issued' =
            CASE at \in {"sp_album", "dz_album"} /\ ai = 1 -> {"album"}
              [] at \in SpotifyLadder \cup DeezerLadder -> issued \cup {Kind(at)}
              [] OTHER -> {}
    /\ allEmpty' =
            IF at = "auth" THEN allEmpty
            ELSE allEmpty /\ resp.k = "ok" /\ (at \in Evidence \/ resp.items = <<>>)
    /\ spNoTok' = (spNoTok \/ (at \in SpotifyCalls /\ token = None))
    /\ pvTried' =
            CASE at \in PreviewDeezer /\ "deezer" \notin Range(pvTried) ->
                    Append(pvTried, "deezer")
              [] at \in PreviewSpotify /\ "spotify" \notin Range(pvTried) ->
                    Append(pvTried, "spotify")
              [] OTHER -> pvTried
    /\ dzYield' = (dzYield \/ DeezerYields(at, resp))
    /\ pvFrom' =
            IF n.pc = "next" /\ at \in PreviewDeezer \cup PreviewSpotify
               /\ "preview_url" \in DOMAIN n.data[rel]
               /\ n.data[rel]["preview_url"] # None
            THEN IF at \in PreviewDeezer THEN "deezer" ELSE "spotify"
            ELSE pvFrom
    /\ auths' = IF at = "auth" THEN auths + 1 ELSE auths
    /\ spTokens' = IF at \in SpotifyCalls THEN spTokens \cup {token} ELSE spTokens
    /\ artistHit' =
            CASE at \in {"sp_artist", "dz_artist"} ->
                    IF artistHit = None /\ resp.k = "ok" /\ resp.items # <<>>
                    THEN resp.items[1].link
                    ELSE artistHit
              [] OTHER -> None
    /\ albumTried' =
            CASE at \in {"sp_album", "dz_album"} /\ ai = 1 -> {1}
              [] at \in {"sp_album", "dz_album"} -> albumTried \cup {ai}
              [] at \in SpotifyLadder \cup DeezerLadder -> albumTried
              [] OTHER -> {}
    /\ undelayed' = IF RateLimited(at, resp) THEN "" ELSE at
    /\ firstFit' =
            CASE at \in {"sp_album", "dz_album"} /\ ai = 1 -> FirstAccepted(at, resp)
              [] at \in {"sp_album", "sp_broad", "dz_album", "dz_broad"} ->
                    IF firstFit = None THEN FirstAccepted(at, resp) ELSE firstFit
              [] at \in SpotifyLadder \cup DeezerLadder -> firstFit
              [] OTHER -> None
    /\ albumSearches' =
            CASE at \in {"sp_album", "dz_album"} /\ ai = 1 -> <<AlbumQuery(Cur, ai)>>
              [] at \in {"sp_album", "dz_album"} -> Append(albumSearches, AlbumQuery(Cur, ai))
              [] at \in SpotifyLadder \cup DeezerLadder -> albumSearches
              [] OTHER -> <<>>
    /\ aux' =
            CASE at = "mb" -> IF resp.k = "ok" THEN resp.items ELSE <<>>
              [] at = "discogs" -> aux \o (IF resp.k = "ok" THEN resp.items ELSE <<>>)
              [] OTHER -> aux

\* One request of the run: issued at position at, answered by one of answers,
\* and handled as on, which maps each answer to the state the run goes on in.
Call(at, answers, on) ==
    /\ \E resp \in answers :
          LET n == on[resp] IN Set(n) /\ Observe(at, resp, n)
    /\ UNCHANGED fm

-----------------------------------------------------------------------------
(* The run *)

Idle == [target |-> <<>>, candidate |-> <<>>, threshold |-> DefaultThreshold,
         applied |-> FALSE, result |-> FALSE]

InitRun(inputs) ==
    /\ pc = "auth"
    /\ where = ""
    /\ token = Unset
    /\ data \in inputs
    /\ file = data
    /\ rel = 0
    /\ ai = 1
    /\ si = 1
    /\ pend = <<>>
    /\ possible_songs = <<>>
    /\ spotify_tracks = <<>>
    /\ deezer_tracks = <<>>
    /\ spNoTok = FALSE
    /\ writes = 0
    /\ auths = 0
    /\ spTokens = {}
    /\ undelayed = ""
    /\ NoHistory

Init == InitRun(Inputs) /\ fm = Idle

Authenticate ==
    /\ pc = "auth"
    /\ LET answers == Answers({"token"})
       IN  Call("auth", answers, [resp \in answers |-> OnAuth(resp)])

\* for album_data in data: the next release, its lists empty.
NextRelease ==
    /\ pc = "next"
    /\ rel < Len(data)
    /\ pc' = "mb"
    /\ rel' = rel + 1
    /\ possible_songs' = <<>>
    /\ spotify_tracks' = <<>>
    /\ deezer_tracks' = <<>>
    /\ ResetHistory
    /\ UNCHANGED <<where, token, data, file, ai, si, pend, spNoTok, writes, auths,
                   spTokens, undelayed, fm>>

\* open(file_path, 'w') and json.dump(data, file) once the loop over the
\* releases has ended.
WriteFile ==
    /\ pc = "next"
    /\ rel = Len(data)
    /\ pc' = "done"
    /\ file' = data
    /\ writes' = writes + 1
    /\ UNCHANGED <<where, token, data, rel, ai, si, pend, possible_songs,
                   spotify_tracks, deezer_tracks, ladder, firstHits, issued, allEmpty,
                   spNoTok, pvTried, dzYield, pvFrom, auths, spTokens, artistHit,
                   albumTried, undelayed, firstFit, albumSearches, aux, fm>>

MusicBrainz ==
    /\ pc = "mb"
    /\ LET answers == Answers(MusicBrainzLists)
       IN  Call("mb", answers, [resp \in answers |-> OnMusicBrainz(resp)])
Discogs ==
    /\ pc = "discogs"
    /\ LET answers == Answers(DiscogsLists)
       IN  Call("discogs", answers, [resp \in answers |-> OnDiscogs(resp)])

SpotifyAlbum ==
    /\ pc = "sp_album"
    /\ LET answers == SpotifyAnswers(AlbumLists)
       IN  Call("sp_album", answers, [resp \in answers |-> OnSpAlbum(resp)])
SpotifyFetch ==
    /\ pc = "sp_fetch"
    /\ LET answers == SpotifyAnswers(TrackLists)
       IN  Call("sp_fetch", answers, [resp \in answers |-> OnSpFetch(resp)])
SpotifyBroad ==
    /\ pc = "sp_broad"
    /\ LET answers == SpotifyAnswers(AlbumLists)
       IN  Call("sp_broad", answers, [resp \in answers |-> OnSpBroad(resp)])
SpotifyTrack ==
    /\ pc = "sp_track"
    /\ LET answers == SpotifyAnswers(TrackItemLists)
       IN  Call("sp_track", answers, [resp \in answers |-> OnSpTrack(resp)])
SpotifyArtist ==
    /\ pc = "sp_artist"
    /\ LET answers == SpotifyAnswers(ArtistLists)
       IN  Call("sp_artist", answers, [resp \in answers |-> OnSpArtist(resp)])

DeezerAlbum ==
    /\ pc = "dz_album"
    /\ LET answers == Answers(AlbumLists)
       IN  Call("dz_album", answers, [resp \in answers |-> OnDzAlbum(resp)])
DeezerFetch ==
    /\ pc = "dz_fetch"
    /\ LET answers == Answers(TrackLists)
       IN  Call("dz_fetch", answers, [resp \in answers |-> OnDzFetch(resp)])
DeezerBroad ==
    /\ pc = "dz_broad"
    /\ LET answers == Answers(AlbumLists)
       IN  Call("dz_broad", answers, [resp \in answers |-> OnDzBroad(resp)])
DeezerArtist ==
    /\ pc = "dz_artist"
    /\ LET answers == Answers(ArtistLists)
       IN  Call("dz_artist", answers, [resp \in answers |-> OnDzArtist(resp)])

PreviewDeezerAlbum ==
    /\ pc = "pv_dz_album"
    /\ LET answers == Answers(AlbumLists)
       IN  Call("pv_dz_album", answers, [resp \in answers |-> OnPvDzAlbum(resp)])
PreviewDeezerFetch ==
    /\ pc = "pv_dz_fetch"
    /\ LET answers == Answers(TrackLists)
       IN  Call("pv_dz_fetch", answers, [resp \in answers |-> OnPvDzFetch(resp)])
PreviewDeezerTrack ==
    /\ pc = "pv_dz_track"
    /\ LET answers == Answers(TrackItemLists)
       IN  Call("pv_dz_track", answers, [resp \in answers |-> OnPvDzTrack(resp)])
PreviewSpotifyAlbum ==
    /\ pc = "pv_sp_album"
    /\ LET answers == SpotifyAnswers(AlbumLists)
       IN  Call("pv_sp_album", answers, [resp \in answers |-> OnPvSpAlbum(resp)])
PreviewSpotifyFetch ==
    /\ pc = "pv_sp_fetch"
    /\ LET answers == SpotifyAnswers(TrackLists)
       IN  Call("pv_sp_fetch", answers, [resp \in answers |-> OnPvSpFetch(resp)])
PreviewSpotifyTrack ==
    /\ pc = "pv_sp_track"
    /\ LET answers == SpotifyAnswers(TrackItemLists)
       IN  Call("pv_sp_track", answers, [resp \in answers |-> OnPvSpTrack(resp)])

Next ==
    \/ Authenticate
    \/ NextRelease
    \/ WriteFile
    \/ MusicBrainz
    \/ Discogs
    \/ SpotifyAlbum
    \/ SpotifyFetch
    \/ SpotifyBroad
    \/ SpotifyTrack
    \/ SpotifyArtist
    \/ DeezerAlbum
    \/ DeezerFetch
    \/ DeezerBroad
    \/ DeezerArtist
    \/ PreviewDeezerAlbum
    \/ PreviewDeezerFetch
    \/ PreviewDeezerTrack
    \/ PreviewSpotifyAlbum
    \/ PreviewSpotifyFetch
    \/ PreviewSpotifyTrack

Spec == Init /\ [][Next]_vars

-----------------------------------------------------------------------------
(* fuzzy_match as a function of its arguments *)

FuzzyChars == {"a", "A", "b", " "}

Strings(n) == UNION {[1..m -> FuzzyChars] : m \in 0..n}

Thresholds == {0, DefaultThreshold, 100, 101}

InitFuzzy ==
    /\ InitRun({<<>>})
    /\ fm \in [target : Strings(MaxStrLen), candidate : Strings(MaxStrLen),
               threshold : Thresholds, applied : {FALSE}, result : {FALSE}]

ApplyFuzzyMatch ==
    /\ ~fm.applied
    /\ fm' = [fm EXCEPT !.applied = TRUE,
                        !.result = FuzzyMatch(fm.target, fm.candidate, fm.threshold)]
    /\ UNCHANGED <<pc, where, token, data, file, rel, ai, si, pend, possible_songs,
                   spotify_tracks, deezer_tracks, ladder, firstHits, issued,
                   allEmpty, spNoTok, pvTried, dzYield, pvFrom, writes, auths,
                   spTokens, artistHit, albumTried, undelayed, firstFit,
                   albumSearches, aux>>

NextFuzzy == ApplyFuzzyMatch

SpecFuzzy == InitFuzzy /\ [][NextFuzzy]_vars

-----------------------------------------------------------------------------
(* Properties *)

IsPrefix(a, b) == Len(a) <= Len(b) /\ SubSeq(b, 1, Len(a)) = a

\* The release rel has been resolved: its three ladders have returned.
Resolved == rel >= 1 /\ pc \in {"next", "done"}

\* C1: no exception raised by a network call made while resolving a release
\* escapes the resolution: the run is never ended by one.
C1_TransportFailureNeverEscapes == where \notin EscapePoints

\* C2: if the first album search of a link ladder returns a result that passes
\* the match check, the ladder issues no broader, track or artist search and
\* returns the link of such a result.
C2_ShortCircuit ==
    firstHits # {} =>
        /\ issued \subseteq {"album", "fetch"}
        /\ (ladder = "spotify" /\ "spotify_link" \in DOMAIN data[rel])
              => data[rel]["spotify_link"] \in firstHits
        /\ (ladder = "deezer" /\ "deezer_link" \in DOMAIN data[rel])
              => data[rel]["deezer_link"] \in firstHits

\* C3: when every call made for a release succeeds and every provider answer
\* is empty, nothing is raised and every link field written for the release
\* is None; once the release is resolved all three are written.
C3_ExhaustedLaddersAbsent ==
    (allEmpty /\ rel >= 1) =>
        /\ pc # "aborted"
        /\ \A k \in LinkKeys \cap DOMAIN data[rel] : data[rel][k] = None
        /\ Resolved => LinkKeys \subseteq DOMAIN data[rel]

C3_Witness ==
    /\ allEmpty
    /\ Resolved
    /\ Len(ArtistList(Cur)) = 2
    /\ possible_songs # <<>>
    /\ \A k \in LinkKeys : data[rel][k] = None

\* C4: after Spotify authentication is rejected no Spotify request is issued.
C4_NoSpotifyCallAfterRejection == ~spNoTok

\* C5: a rejected Spotify authentication does not end the run, and every
\* release the run has resolved has had its Deezer ladder run to its return.
C5_AuthFailureIsolated ==
    token = None =>
        /\ pc = "aborted" => where \in EscapePoints
        /\ \A r \in 1..Len(data) :
              (r < rel \/ (r = rel /\ Resolved)) => "deezer_link" \in DOMAIN data[r]

C5_Witness ==
    /\ token = None
    /\ pc = "done"
    /\ Len(data) = 2
    /\ \A r \in 1..Len(data) : file[r]["deezer_link"] # None

\* C6 as claimed: the preview ladder asks Apple Music, then Deezer, then Spotify.
C6_AppleMusicThenDeezerThenSpotify ==
    IsPrefix(pvTried, <<"applemusic", "deezer", "spotify">>)

\* C6: the preview ladder asks Deezer, then Spotify; a ladder that finds no
\* preview has asked both; and no Spotify preview is returned for a release
\* for which a Deezer answer held a preview the ladder takes.
C6_DeezerThenSpotify ==
    /\ IsPrefix(pvTried, <<"deezer", "spotify">>)
    /\ (Resolved /\ pvFrom = "none") => pvTried = <<"deezer", "spotify">>
    /\ pvFrom = "spotify" => ~dzYield
    /\ pvFrom = "deezer" => (dzYield /\ pvTried = <<"deezer">>)

C6_Witness ==
    /\ Resolved
    /\ pvFrom = "spotify"
    /\ pvTried = <<"deezer", "spotify">>
    /\ data[rel]["preview_url"] = "preview-1"

\* C7 as claimed: after a completed run every record holds four link fields.
C7_FourLinkFields ==
    pc = "done" =>
        \A r \in 1..Len(file) :
            {"spotify_link", "deezer_link", "apple_music_link", "preview_url"}
                \subseteq DOMAIN file[r]

\* C7: after a completed run every record holds the three link fields
\* spotify_link, deezer_link and preview_url, and no other field is added.
C7_ThreeLinkFields ==
    pc = "done" =>
        \A r \in 1..Len(file) : DOMAIN file[r] = {"artist", "album"} \cup LinkKeys

C7_Witness ==
    /\ pc = "done"
    /\ \E r \in 1..Len(file) :
          LinkKeys \subseteq DOMAIN file[r] /\ \A k \in LinkKeys : file[r][k] = None

\* C8: at every request of a release, an answer with an error status leaves the
\* run exactly where an empty successful answer leaves it, and nothing is raised.
C8_ErrorStatusIsNoResult ==
    /\ pc = "mb" =>
          OnMusicBrainz(Err) = OnMusicBrainz(Ok(<<>>)) /\ OnMusicBrainz(Err).pc # "aborted"
    /\ pc = "discogs" =>
          OnDiscogs(Err) = OnDiscogs(Ok(<<>>)) /\ OnDiscogs(Err).pc # "aborted"
    /\ pc = "sp_album" =>
          OnSpAlbum(Err) = OnSpAlbum(Ok(<<>>)) /\ OnSpAlbum(Err).pc # "aborted"
    /\ pc = "sp_fetch" =>
          OnSpFetch(Err) = OnSpFetch(Ok(<<>>)) /\ OnSpFetch(Err).pc # "aborted"
    /\ pc = "sp_broad" =>
          OnSpBroad(Err) = OnSpBroad(Ok(<<>>)) /\ OnSpBroad(Err).pc # "aborted"
    /\ pc = "sp_track" =>
          OnSpTrack(Err) = OnSpTrack(Ok(<<>>)) /\ OnSpTrack(Err).pc # "aborted"
    /\ pc = "sp_artist" =>
          OnSpArtist(Err) = OnSpArtist(Ok(<<>>)) /\ OnSpArtist(Err).pc # "aborted"
    /\ pc = "dz_album" =>
          OnDzAlbum(Err) = OnDzAlbum(Ok(<<>>)) /\ OnDzAlbum(Err).pc # "aborted"
    /\ pc = "dz_fetch" =>
          OnDzFetch(Err) = OnDzFetch(Ok(<<>>)) /\ OnDzFetch(Err).pc # "aborted"
    /\ pc = "dz_broad" =>
          OnDzBroad(Err) = OnDzBroad(Ok(<<>>)) /\ OnDzBroad(Err).pc # "aborted"
    /\ pc = "dz_artist" =>
          OnDzArtist(Err) = OnDzArtist(Ok(<<>>)) /\ OnDzArtist(Err).pc # "aborted"
    /\ pc = "pv_dz_album" =>
          OnPvDzAlbum(Err) = OnPvDzAlbum(Ok(<<>>)) /\ OnPvDzAlbum(Err).pc # "aborted"
    /\ pc = "pv_dz_fetch" =>
          OnPvDzFetch(Err) = OnPvDzFetch(Ok(<<>>)) /\ OnPvDzFetch(Err).pc # "aborted"
    /\ pc = "pv_dz_track" =>
          OnPvDzTrack(Err) = OnPvDzTrack(Ok(<<>>)) /\ OnPvDzTrack(Err).pc # "aborted"
    /\ pc = "pv_sp_album" =>
          OnPvSpAlbum(Err) = OnPvSpAlbum(Ok(<<>>)) /\ OnPvSpAlbum(Err).pc # "aborted"
    /\ pc = "pv_sp_fetch" =>
          OnPvSpFetch(Err) = OnPvSpFetch(Ok(<<>>)) /\ OnPvSpFetch(Err).pc # "aborted"
    /\ pc = "pv_sp_track" =>
          OnPvSpTrack(Err) = OnPvSpTrack(Ok(<<>>)) /\ OnPvSpTrack(Err).pc # "aborted"

\* With the token rejected Spotify answers only with an error status: the run
\* is at the broader search because the first search's error was taken as no result.
C8_Witness ==
    /\ token = None
    /\ pc = "sp_broad"
    /\ Len(ArtistList(Cur)) = 2

\* C9: within the resolution of one release every step leaves the evidence
\* list a prefix of the new one.
C9_EvidenceOnlyGrows ==
    [][rel' = rel => IsPrefix(possible_songs, possible_songs')]_vars

C9_Witness ==
    /\ pc \in PreviewDeezer \cup PreviewSpotify
    /\ possible_songs = <<"m1", "d1", "t1", "t1", "t2">>

Unenriched(d) == [r \in 1..Len(d) |-> [artist |-> d[r].artist, album |-> d[r].album]]

\* C12: the artifact is written once, when the run completes, after every
\* release has been resolved, and holds the enriched records; until then, and
\* in every run that aborts, it has not been written and holds what was read.
C12_SingleWriteAtEnd ==
    /\ pc = "done" =>
          /\ writes = 1
          /\ rel = Len(data)
          /\ file = data
          /\ \A r \in 1..Len(data) : LinkKeys \subseteq DOMAIN data[r]
    /\ pc # "done" => (writes = 0 /\ file = Unenriched(data))

\* A run aborted in its second release, the first record already enriched in memory.
C12_Witness ==
    /\ pc = "aborted"
    /\ rel = 2
    /\ LinkKeys \subseteq DOMAIN data[1]
    /\ data[1]["deezer_link"] # None
    /\ writes = 0
    /\ file = Unenriched(data)

\* C13: the run issues one token request, before the first release, and every
\* Spotify request of every release carries the value that request gave.
C13_OneCredential ==
    /\ auths <= 1
    /\ rel >= 1 => auths = 1
    /\ auths = 0 => (token = Unset /\ rel = 0)
    /\ spTokens \subseteq {token}

C13_Witness ==
    /\ rel = 2
    /\ pc \in PreviewSpotify
    /\ auths = 1
    /\ spTokens = {"token"}

\* C14: a link ladder whose artist searches got a non-empty answer returns
\* the page link of the first artist that got one.
C14_ArtistPageReturned ==
    artistHit # None =>
        /\ (ladder = "spotify" /\ pc = "dz_album") =>
                data[rel]["spotify_link"] = artistHit
        /\ (ladder = "deezer" /\ pc = "pv_dz_album") =>
                data[rel]["deezer_link"] = artistHit

\* C15: when a link ladder is about to issue its search by album name only,
\* its search by album and artist has been issued for every listed artist.
C15_BroadAfterEveryArtist ==
    pc \in {"sp_broad", "dz_broad"} => albumTried = 1..Len(ArtistList(Cur))

\* C16: when a link ladder with evidence is about to issue an artist search,
\* it has issued track searches.
C16_TrackTierBeforeArtistTier ==
    (pc \in {"sp_artist", "dz_artist"} /\ possible_songs # <<>>) => "track" \in issued

\* The positions at which the run issues a request for a release.
Requests ==
    Evidence \cup SpotifyLadder \cup DeezerLadder \cup PreviewDeezer \cup PreviewSpotify

\* C17: when the run is about to issue a request for a release, rate_limit has
\* run since the last search, track listing or preview request and since the
\* last MusicBrainz request.  (The token request and the Discogs client's
\* request are left out of the count.)
C17_DelayBetweenCalls == pc \in Requests => undelayed \in {"", "auth", "discogs"}

\* The album results the providers answer with.
Candidates == {AlbumA, AlbumB, AlbumShort}

\* Both checks with the release's album and a listed artist as the target.
PassesBoth(c) ==
    /\ fuzzy_match(Album(Cur), c.title)
    /\ \E i \in 1..Len(ArtistList(Cur)) : fuzzy_match(ArtistName(Cur, i), c.artist)

\* C18: the album result a link ladder accepts passes both checks, with the
\* release's album and the listed artist as the target, and a link field that
\* holds an album result's link holds the link of one that passes both.
C18_AlbumTierAcceptance ==
    /\ pc = "sp_fetch" =>
          /\ fuzzy_match(Album(Cur), pend[1].title)
          /\ fuzzy_match(ArtistName(Cur, ai), pend[1].artist)
    /\ pc = "dz_fetch" => PassesBoth(pend[1])
    /\ rel >= 1 =>
          \A k \in {"spotify_link", "deezer_link"} \cap DOMAIN data[rel] :
              \A c \in Candidates : data[rel][k] = c.link => PassesBoth(c)

\* Both link ladders have returned an album link for a release of two artists.
C18_Witness ==
    /\ pc = "pv_dz_album"
    /\ Len(ArtistList(Cur)) = 2
    /\ data[rel]["spotify_link"] = AlbumA.link
    /\ data[rel]["deezer_link"] = AlbumB.link
    /\ ~PassesBoth(AlbumShort)

\* C19: the album result the preview ladder requests the tracks of passes
\* both checks with the release's album and a listed artist as the target.
C19_PreviewAlbumAcceptance ==
    pc \in {"pv_dz_fetch", "pv_sp_fetch"} => PassesBoth(pend[1])

\* The run in state n is still in the tier, at this artist or the next one.
Stays(n, tier) == n.pc \in tier /\ n.rel = rel /\ n.si = si /\ n.ai \in {ai, ai + 1}

\* C20: in the Spotify link ladder and the preview ladder, a search that
\* raises or is answered with an error status while artists remain leaves the
\* run in the same tier, at the same artist or the one listed next.
C20_ArtistsIndependent ==
    \A resp \in {Raise, Err} :
        /\ (pc = "sp_album" /\ ai < Len(ArtistList(Cur))) =>
              Stays(OnSpAlbum(resp), {"sp_album", "sp_broad"})
        /\ (pc = "sp_broad" /\ ai < Len(ArtistList(Cur))) =>
              Stays(OnSpBroad(resp), {"sp_album"})
        /\ (pc = "sp_track" /\ ai < Len(ArtistList(Cur))) =>
              Stays(OnSpTrack(resp), {"sp_track"})
        /\ (pc = "sp_artist" /\ ai < Len(ArtistList(Cur))) =>
              Stays(OnSpArtist(resp), {"sp_artist"})
        /\ (pc = "pv_dz_album" /\ ai < Len(ArtistList(Cur))) =>
              Stays(OnPvDzAlbum(resp), {"pv_dz_album"})
        /\ (pc = "pv_dz_track" /\ ai < Len(ArtistList(Cur))) =>
              Stays(OnPvDzTrack(resp), {"pv_dz_track"})
        /\ (pc = "pv_sp_album" /\ ai < Len(ArtistList(Cur))) =>
              Stays(OnPvSpAlbum(resp), {"pv_sp_album"})
        /\ (pc = "pv_sp_track" /\ ai < Len(ArtistList(Cur))) =>
              Stays(OnPvSpTrack(resp), {"pv_sp_track"})

\* C21: a link ladder whose album searches were answered with a result it
\* could accept returns the link of the first such result, artists in listed
\* order and results in the order the provider answered them.
C21_FirstFit ==
    firstFit # None =>
        /\ (ladder = "spotify" /\ pc = "dz_album") =>
                data[rel]["spotify_link"] = firstFit
        /\ (ladder = "deezer" /\ pc = "pv_dz_album") =>
                data[rel]["deezer_link"] = firstFit

\* C22 as claimed: when the Deezer ladder is about to issue its search by
\* album name only, it has searched for a title other than the album title.
C22_TitleVariantsSearched ==
    pc = "dz_broad" =>
        \E k \in 1..Len(albumSearches) : albumSearches[k].title # Album(Cur)

\* C22: a link ladder issues one search by album and artist for each listed
\* artist, in listed order, each with the album title as it is; the Deezer
\* ladder has issued all of them when it is about to search by album name only.
C22_OneSearchPerArtist ==
    pc \in SpotifyLadder \cup DeezerLadder =>
        /\ Len(albumSearches) <= Len(ArtistList(Cur))
        /\ \A k \in 1..Len(albumSearches) :
              albumSearches[k] = [artist |-> ArtistName(Cur, k), title |-> Album(Cur)]
        /\ pc = "dz_broad" => Len(albumSearches) = Len(ArtistList(Cur))

C22_Witness ==
    /\ pc = "dz_broad"
    /\ Len(albumSearches) = 2
    /\ albumSearches[1].artist # albumSearches[2].artist

\* C23: against an empty candidate fuzzy_match, at its default threshold, is
\* true exactly when the target is empty too.
C23_EmptyCandidate ==
    (fm.applied /\ fm.candidate = <<>> /\ fm.threshold = DefaultThreshold) =>
        (fm.result <=> fm.target = <<>>)

\* C24: the link ladders run with the evidence lookups' titles, MusicBrainz's
\* then Discogs's, and nothing else; from the return of the Deezer ladder on
\* the evidence is those titles, then the Spotify tracks, then the Deezer tracks.
C24_NativeTracksAfterLinkLadders ==
    /\ pc \in SpotifyLadder \cup DeezerLadder => possible_songs = aux
    /\ (pc \in PreviewDeezer \cup PreviewSpotify \/ Resolved) =>
          possible_songs = aux \o spotify_tracks \o deezer_tracks

C24_Witness ==
    /\ pc = "pv_dz_track"
    /\ aux = <<"m1", "d1">>
    /\ spotify_tracks = <<"t1">>
    /\ deezer_tracks = <<"t1", "t2">>
    /\ possible_songs = <<"m1", "d1", "t1", "t1", "t2">>

=============================================================================
